---- MODULE Spec2Model ----
(***************************************************************************)
(* Page-tree resolution (src/src/lib/pages.ts) and the search / AI-answer  *)
(* server actions (src/unnamed/part_001) of the GitBook site renderer.     *)
(*                                                                         *)
(* Three specifications share the module's variables:                      *)
(*   SpecPages   a page tree and one call of a resolver on it              *)
(*   SpecAnswer  one streamAskQuestion session                             *)
(*   SpecSearch  one searchSiteContent call                                *)
(***************************************************************************)
EXTENDS Integers, Sequences, FiniteSets

VARIABLES
    rootPages,   \* Revision['pages'] handed to the resolvers
    call,        \* the resolver call: its function, argument and return value
    pc,          \* streamAskQuestion: position of the generator
    stream,      \* streamAskQuestion: number of chunks delivered by the stream
    chunk,       \* streamAskQuestion: chunk.answer of the chunk being processed
    todo,        \* transformAnswer: the space ids pMap has not handed to its mapper yet
    inflight,    \* transformAnswer: the spaces whose getSpaceContentData call is awaited
    spaceData,   \* streamAskQuestion: Map<string, RevisionPage[]>
    out,         \* streamAskQuestion: the AskAnswerResult at the generator's current yield
    yielded,     \* stream positions of the chunks whose result was yielded (history)
    processed,   \* stream positions of the chunks handed to transformAnswer (history)
    fetchLog,    \* the getSpaceContentData calls issued so far: space, chunk, outcome (history)
    error,       \* the rejection that left the generator (Undefined when none)
    backend,     \* searchSiteContent: what the search API and the site API return
    search       \* the searchSiteContent call: arguments, collaborator calls, result

vars == <<rootPages, call, pc, stream, chunk, todo, inflight, spaceData, out, yielded,
          processed, fetchLog, error, backend, search>>

pageVars == <<rootPages, call>>
answerVars == <<pc, stream, chunk, todo, inflight, spaceData, out, yielded, processed,
                fetchLog, error>>
searchVars == <<backend, search>>

\* JavaScript's undefined (also used where the code returns null).
Undefined == [undefined |-> TRUE]

(***************************************************************************)
(* Bounds                                                                  *)
(***************************************************************************)
MaxNodes == 3

\* Chunks the answer stream delivers in one session, and sources in one chunk.
MaxChunks == 2
MaxSources == 2

\* Length of a search query, and sections of a site structure.
MaxQueryLen == 2
MaxSections == 2

\* Page paths; "" is the empty path.
Paths == {"", "a", "b"}

(***************************************************************************)
(* RevisionPage trees: every forest of at most MaxNodes nodes.  Ids are    *)
(* the pre-order numbers of the nodes, so they are unique in a tree.       *)
(***************************************************************************)
RECURSIVE Forests(_, _)
Forests(n, k) ==
    IF n = 0 THEN {<<>>}
    ELSE UNION {
        LET rests == Forests(n - 1 - m, k + 1 + m)
            subs  == Forests(m, k + 1)
            nodes == {[type |-> t, id |-> k, path |-> p, title |-> "t", pages |-> c] :
                          t \in {"document", "group"}, p \in Paths, c \in subs}
                     \cup (IF m = 0
                           THEN {[type |-> "link", id |-> k, path |-> "", title |-> "t",
                                  pages |-> <<>>]}
                           ELSE {})
        IN  {<<nd>> \o r : nd \in nodes, r \in rests}
        : m \in 0..(n - 1)}

PageTrees == UNION {Forests(n, 1) : n \in 0..MaxNodes}

(***************************************************************************)
(* src/src/lib/pages.ts                                                    *)
(***************************************************************************)
RECURSIVE resolveFirstDocument(_, _), resolvePageDocument(_, _)

resolvePageDocument_NoGroupAncestor(page, ancestors) ==
    IF page.type = "group" THEN
        LET firstDocument == resolveFirstDocument(page.pages, ancestors)
        IN  IF firstDocument # Undefined THEN firstDocument ELSE Undefined
    ELSE IF page.type = "link" THEN Undefined
    ELSE [page |-> page, ancestors |-> ancestors]

resolvePageDocument(page, ancestors) ==
    IF page.type = "group" THEN
        LET firstDocument == resolveFirstDocument(page.pages, Append(ancestors, page))
        IN  IF firstDocument # Undefined THEN firstDocument ELSE Undefined
    ELSE IF page.type = "link" THEN Undefined
    ELSE [page |-> page, ancestors |-> ancestors]

\* for (const page of pages): the first non-link page decides the result.
resolveFirstDocument(pages, ancestors) ==
    IF pages = <<>> THEN Undefined
    ELSE IF Head(pages).type = "link" THEN resolveFirstDocument(Tail(pages), ancestors)
    ELSE resolvePageDocument(Head(pages), ancestors)

RECURSIVE iteratePagesByPath(_, _, _)

\* The search stops at the first subtree it descends into.
iteratePagesByPath_StopAfterFirstSubtree(pages, ancestors, pagePath) ==
    IF pages = <<>> THEN Undefined
    ELSE LET page == Head(pages) IN
        IF page.type = "link" THEN iteratePagesByPath(Tail(pages), ancestors, pagePath)
        ELSE IF page.path # pagePath THEN
            iteratePagesByPath(page.pages, Append(ancestors, page), pagePath)
        ELSE resolvePageDocument(page, ancestors)

iteratePagesByPath(pages, ancestors, pagePath) ==
    IF pages = <<>> THEN Undefined
    ELSE LET page == Head(pages) IN
        IF page.type = "link" THEN iteratePagesByPath(Tail(pages), ancestors, pagePath)
        ELSE IF page.path # pagePath THEN
            LET result == iteratePagesByPath(page.pages, Append(ancestors, page), pagePath)
            IN  IF result # Undefined THEN result
                ELSE iteratePagesByPath(Tail(pages), ancestors, pagePath)
        ELSE resolvePageDocument(page, ancestors)

resolvePagePath(pages, pagePath) ==
    IF pagePath = "" THEN
        LET firstPage == resolveFirstDocument(pages, <<>>)
        IN  IF firstPage = Undefined THEN Undefined ELSE firstPage
    ELSE iteratePagesByPath(pages, <<>>, pagePath)

RECURSIVE iteratePagesById(_, _, _)
iteratePagesById(pages, ancestors, pageId) ==
    IF pages = <<>> THEN Undefined
    ELSE LET page == Head(pages) IN
        IF page.type = "link" THEN iteratePagesById(Tail(pages), ancestors, pageId)
        ELSE IF page.id = pageId THEN resolvePageDocument(page, ancestors)
        ELSE LET result == iteratePagesById(page.pages, Append(ancestors, page), pageId)
             IN  IF result # Undefined THEN result
                 ELSE iteratePagesById(Tail(pages), ancestors, pageId)

resolvePageId(pages, pageId) == iteratePagesById(pages, <<>>, pageId)

RECURSIVE flattenPages(_)
flattenPages(pages) ==
    IF pages = <<>> THEN <<>>
    ELSE LET page == Head(pages) IN
        IF page.type = "link" THEN flattenPages(Tail(pages))
        ELSE (IF page.type = "document" THEN <<page>> ELSE <<>>)
             \o flattenPages(page.pages) \o flattenPages(Tail(pages))

\* Array.prototype.findIndex on ids: the first index (from 1) or 0 when none.
findIndexById(flat, id) ==
    IF \E i \in 1..Len(flat) : flat[i].id = id
    THEN CHOOSE i \in 1..Len(flat) :
             flat[i].id = id /\ \A j \in 1..(i - 1) : flat[j].id # id
    ELSE 0

\* flat[i] of a JavaScript array: undefined outside the array.
At(flat, i) == IF i \in 1..Len(flat) THEN flat[i] ELSE Undefined

resolvePrevNextPages_SkipNext(pages, page) ==
    LET flat == flattenPages(pages)
        currentIndex == findIndexById(flat, page.id)
    IN  IF currentIndex = 0 THEN [previous |-> Undefined, next |-> Undefined]
        ELSE [previous |-> At(flat, currentIndex - 1), next |-> At(flat, currentIndex + 2)]

\* The empty object returned for a page outside the tree reads as
\* previous = next = undefined.
resolvePrevNextPages(pages, page) ==
    LET flat == flattenPages(pages)
        currentIndex == findIndexById(flat, page.id)
    IN  IF currentIndex = 0 THEN [previous |-> Undefined, next |-> Undefined]
        ELSE [previous |-> At(flat, currentIndex - 1), next |-> At(flat, currentIndex + 1)]

(***************************************************************************)
(* src/unnamed/part_001: streamAskQuestion and transformAnswer             *)
(***************************************************************************)
\* The spaces of the site, and what api.getSpaceContentData returns for each
\* when it succeeds.  Both spaces use the page ids 1..3, with their own
\* titles and paths.
Spaces == {"s1", "s2"}

SpacePages(spaceId) ==
    IF spaceId = "s1" THEN
        << [type |-> "document", id |-> 1, path |-> "s1/one", title |-> "S1 One",
            pages |-> <<>>],
           [type |-> "group", id |-> 2, path |-> "s1/two", title |-> "S1 Two",
            pages |-> << [type |-> "document", id |-> 3, path |-> "s1/two/three",
                          title |-> "S1 Three", pages |-> <<>>] >>] >>
    ELSE
        << [type |-> "group", id |-> 1, path |-> "s2/one", title |-> "S2 One",
            pages |-> <<>>],
           [type |-> "document", id |-> 2, path |-> "s2/two", title |-> "S2 Two",
            pages |-> <<>>],
           [type |-> "link", id |-> 3, path |-> "", title |-> "S2 Three",
            pages |-> <<>>] >>

SourcePageIds == 1..3

\* SearchAIAnswer sources: page sources, and one source of another kind.
AnswerSources ==
    [type : {"page"}, space : Spaces, page : SourcePageIds]
        \cup {[type |-> "entity", space |-> "", page |-> 0]}

SeqsUpTo(S, n) == UNION {[1..k -> S] : k \in 0..n}

\* chunk.answer of the chunks the stream may deliver.
Answers ==
    [sources : SeqsUpTo(AnswerSources, MaxSources),
     followupQuestions : {<<>>, <<"q1", "q2">>},
     answer : {Undefined, [document |-> "doc"], [markdown |-> "md"]}]

\* Map<string, RevisionPage[]>
EmptyMap == [s \in {} |-> <<>>]

MapHas_Never(map, key) == FALSE

MapHas(map, key) == key \in DOMAIN map

MapSet(map, key, value) ==
    [k \in DOMAIN map \cup {key} |-> IF k = key THEN value ELSE map[k]]

\* The Set of space ids of the page sources, in insertion order.
RECURSIVE uniqueSpaces(_, _)
uniqueSpaces(sources, acc) ==
    IF sources = <<>> THEN acc
    ELSE LET source == Head(sources) IN
        IF source.type # "page" THEN uniqueSpaces(Tail(sources), acc)
        ELSE IF \E i \in 1..Len(acc) : acc[i] = source.space
             THEN uniqueSpaces(Tail(sources), acc)
             ELSE uniqueSpaces(Tail(sources), Append(acc, source.space))

\* lib/links pageHref(pages, page): the link to a page of a page list.
pageHref(pages, page) == [href |-> page.path]

\* An unresolved page is given a placeholder instead of being dropped.
answerSource_Placeholder(source, cache) ==
    IF source.type # "page" THEN Undefined
    ELSE IF ~MapHas(cache, source.space) THEN Undefined
    ELSE LET pages == cache[source.space]
             page == resolvePageId(pages, source.page)
         IN  IF page = Undefined
             THEN [id |-> source.page, title |-> "", href |-> [href |-> ""]]
             ELSE [id |-> source.page, title |-> page.page.title,
                   href |-> pageHref(pages, page.page)]

\* The page is looked up in some cached space, not in the source's own.
answerSource_AnySpace(source, cache) ==
    IF source.type # "page" THEN Undefined
    ELSE IF DOMAIN cache = {} THEN Undefined
    ELSE LET pages == cache[CHOOSE s \in DOMAIN cache : TRUE]
             page == resolvePageId(pages, source.page)
         IN  IF page = Undefined THEN Undefined
             ELSE [id |-> source.page, title |-> page.page.title,
                   href |-> pageHref(pages, page.page)]

\* The callback of answer.sources.map: null for a source that is dropped.
answerSource(source, cache) ==
    IF source.type # "page" THEN Undefined
    ELSE IF ~MapHas(cache, source.space) THEN Undefined
    ELSE LET pages == cache[source.space]
             page == resolvePageId(pages, source.page)
         IN  IF page = Undefined THEN Undefined
             ELSE [id |-> source.page, title |-> page.page.title,
                   href |-> pageHref(pages, page.page)]

\* answer.sources.map(...).filter(filterOutNullable)
answerSources(sources, cache) ==
    SelectSeq([i \in 1..Len(sources) |-> answerSource(sources[i], cache)],
              LAMBDA x : x # Undefined)

\* The body: the rendered document, or null.
answerBody(answer) ==
    IF answer.answer # Undefined /\ "document" \in DOMAIN answer.answer
    THEN [DocumentView |-> answer.answer.document]
    ELSE Undefined

\* for await (const chunk of stream): the stream delivers a null chunk, which
\* is skipped, or a chunk whose answer is handed to transformAnswer.
StreamChunk ==
    /\ pc = "next"
    /\ stream < MaxChunks
    /\ stream' = stream + 1
    /\ \/ /\ chunk' = Undefined
          /\ UNCHANGED <<pc, todo, processed>>
       \/ \E answer \in Answers :
              /\ chunk' = answer
              /\ processed' = Append(processed, stream')
              /\ todo' = uniqueSpaces(answer.sources, <<>>)
              /\ pc' = "pMap"
    /\ UNCHANGED <<inflight, spaceData, out, yielded, fetchLog, error>>

\* The stream ends: the generator returns.
StreamEnd ==
    /\ pc = "next"
    /\ pc' = "done"
    /\ UNCHANGED <<stream, chunk, todo, inflight, spaceData, out, yielded, processed,
                   fetchLog, error>>

\* pMap without the concurrency cap: a mapper starts for a space while the
\* fetch of another one is awaited.
Mapper_Uncapped ==
    /\ pc = "pMap"
    /\ todo # <<>>
    /\ \/ /\ inflight = {}
          /\ MapHas(spaceData, Head(todo))
          /\ todo' = Tail(todo)
          /\ UNCHANGED <<inflight, fetchLog>>
       \/ \E i \in 1..Len(todo) :
              /\ todo[i] \notin inflight
              /\ ~MapHas(spaceData, todo[i])
              /\ inflight' = inflight \cup {todo[i]}
              /\ fetchLog' = Append(fetchLog, [space |-> todo[i], chunk |-> stream,
                                               outcome |-> "pending"])
              /\ UNCHANGED todo
    /\ UNCHANGED <<pc, stream, chunk, spaceData, out, yielded, processed, error>>

\* pMap hands the next space to its mapper: a cached space returns at once,
\* another one calls api.getSpaceContentData and awaits it.  With
\* concurrency 1 no mapper starts while a fetch is awaited.
Mapper ==
    /\ pc = "pMap"
    /\ todo # <<>>
    /\ inflight = {}
    /\ \/ /\ MapHas(spaceData, Head(todo))
          /\ todo' = Tail(todo)
          /\ UNCHANGED <<inflight, fetchLog>>
       \/ /\ ~MapHas(spaceData, Head(todo))
          /\ inflight' = {Head(todo)}
          /\ fetchLog' = Append(fetchLog, [space |-> Head(todo), chunk |-> stream,
                                           outcome |-> "pending"])
          /\ UNCHANGED todo
    /\ UNCHANGED <<pc, stream, chunk, spaceData, out, yielded, processed, error>>

\* api.getSpaceContentData resolves: the mapper stores the pages.
FetchResolve ==
    /\ pc = "pMap"
    /\ \E spaceId \in inflight :
           /\ spaceData' = MapSet(spaceData, spaceId, SpacePages(spaceId))
           /\ fetchLog' = [fetchLog EXCEPT ![Len(fetchLog)].outcome = "ok"]
    /\ inflight' = {}
    /\ todo' = Tail(todo)
    /\ UNCHANGED <<pc, stream, chunk, out, yielded, processed, error>>

\* The failure is swallowed: the mapper returns without storing anything.
FetchReject_Swallowed ==
    /\ pc = "pMap"
    /\ inflight # {}
    /\ fetchLog' = [fetchLog EXCEPT ![Len(fetchLog)].outcome = "fail"]
    /\ inflight' = {}
    /\ todo' = Tail(todo)
    /\ UNCHANGED <<pc, stream, chunk, spaceData, out, yielded, processed, error>>

\* api.getSpaceContentData rejects: the mapper, pMap, transformAnswer and the
\* generator reject in turn; nothing catches the error.
FetchReject ==
    /\ pc = "pMap"
    /\ \E spaceId \in inflight : error' = [failed |-> spaceId]
    /\ fetchLog' = [fetchLog EXCEPT ![Len(fetchLog)].outcome = "fail"]
    /\ inflight' = {}
    /\ pc' = "failed"
    /\ UNCHANGED <<stream, chunk, todo, spaceData, out, yielded, processed>>

\* pMap has resolved: transformAnswer builds the result and the generator
\* yields it.
Yield ==
    /\ pc = "pMap"
    /\ todo = <<>>
    /\ inflight = {}
    /\ out' = [body |-> answerBody(chunk),
               followupQuestions |-> chunk.followupQuestions,
               sources |-> answerSources(chunk.sources, spaceData)]
    /\ yielded' = Append(yielded, stream)
    /\ pc' = "yield"
    /\ UNCHANGED <<stream, chunk, todo, inflight, spaceData, processed, fetchLog, error>>

\* The consumer takes the result and asks for the next one.
Resume ==
    /\ pc = "yield"
    /\ pc' = "next"
    /\ out' = Undefined
    /\ chunk' = Undefined
    /\ UNCHANGED <<stream, todo, inflight, spaceData, yielded, processed, fetchLog, error>>

(***************************************************************************)
(* src/unnamed/part_001: searchSiteContent                                 *)
(*                                                                         *)
(* Titles, URLs and paths are strings written as sequences of tokens       *)
(* ("/" is a token of its own), so that the empty string is <<>> and       *)
(* startsWith / endsWith / slice read the first and last token.            *)
(***************************************************************************)
Queries == SeqsUpTo({"x"}, MaxQueryLen)

Scopes ==
    {[mode |-> "all"],
     [mode |-> "current", siteSpaceId |-> "ss-s1"],
     [mode |-> "specific", siteSpaceIds |-> <<"ss-s1">>],
     [mode |-> "specific", siteSpaceIds |-> <<"ss-s1", "ss-s2">>]}

\* The published URL of a space: one ends with a slash, the other does not.
PublishedURL(spaceId) ==
    IF spaceId = "s1" THEN <<"https://one", "/">> ELSE <<"https://two">>

SiteSpaces ==
    {[id |-> "ss-" \o sp,
      space |-> [id |-> sp, title |-> t],
      urls |-> [published |-> PublishedURL(sp)]] :
         sp \in Spaces, t \in {<<>>, <<"Docs">>}}

SiteSections ==
    [title : {<<>>, <<"API">>}, siteSpaces : SeqsUpTo(SiteSpaces, 1)]

\* api.getSiteData: a flat list of site-spaces, or titled sections of them.
SiteDatas ==
    {[structure |-> [type |-> "siteSpaces", structure |-> st]] :
         st \in SeqsUpTo(SiteSpaces, 2)}
    \cup
    {[structure |-> [type |-> "sections", structure |-> st]] :
         st \in SeqsUpTo(SiteSections, MaxSections)}

\* SearchPageResult: page n of a space, the second one with a section.
PageItem(spaceId, n) ==
    IF n = 1
    THEN [id |-> spaceId \o "-p1", title |-> <<"Page">>, path |-> <<"/", "a">>]
    ELSE [id |-> spaceId \o "-p2", title |-> <<"Page">>, path |-> <<"b">>,
          sections |-> <<[id |-> "sec", title |-> <<"Section">>, path |-> <<"b", "#sec">>,
                          body |-> <<"text">>]>>]

\* Search results of a space; "s3" is a space outside the site structure.
SpaceItems ==
    {[id |-> "s1", pages |-> <<PageItem("s1", 1), PageItem("s1", 2)>>],
     [id |-> "s2", pages |-> <<PageItem("s2", 2)>>],
     [id |-> "s3", pages |-> <<PageItem("s3", 1)>>]}

\* api.searchSiteContent: at most two spaces, each at most once.
SearchItems ==
    {its \in SeqsUpTo(SpaceItems, 2) :
         \A a, b \in 1..Len(its) : its[a].id = its[b].id => a = b}

Backends == [items : SearchItems, siteData : SiteDatas]

\* lib/links absoluteHref(path): the path resolved against the site itself.
absoluteHref(path) == <<"site:">> \o path

\* An optional property that is undefined reads like one that is absent: the
\* args of transformSectionsAndPage hold space and spaceURL only when they
\* are defined, and a page result holds spaceTitle only when it is.
getURL(path, args) ==
    IF "spaceURL" \in DOMAIN args /\ args.spaceURL # <<>> THEN
        LET spaceURL == IF args.spaceURL[Len(args.spaceURL)] # "/"
                        THEN Append(args.spaceURL, "/") ELSE args.spaceURL
            rel == IF path # <<>> /\ path[1] = "/" THEN Tail(path) ELSE path
        IN  spaceURL \o rel
    ELSE absoluteHref(path)

\* [page, ...sections] of transformSitePageResult / transformPageResult.
transformSectionsAndPage(args) ==
    LET item == args.item
        sections ==
            IF "sections" \notin DOMAIN item THEN <<>>
            ELSE [i \in 1..Len(item.sections) |->
                     [type |-> "section",
                      id |-> item.id \o "/" \o item.sections[i].id,
                      title |-> item.sections[i].title,
                      href |-> getURL(item.sections[i].path, args),
                      body |-> item.sections[i].body]]
        page == IF "space" \in DOMAIN args
                THEN [type |-> "page", id |-> item.id, title |-> item.title,
                      href |-> getURL(item.path, args), spaceTitle |-> args.space.title]
                ELSE [type |-> "page", id |-> item.id, title |-> item.title,
                      href |-> getURL(item.path, args)]
    IN  <<page>> \o sections

transformSitePageResult(item, siteSpace) ==
    transformSectionsAndPage(
        IF siteSpace = Undefined THEN [item |-> item]
        ELSE [item |-> item, space |-> siteSpace.space,
              spaceURL |-> siteSpace.urls.published])

transformPageResult(item) == transformSectionsAndPage([item |-> item])

\* Array.prototype.flat / push(...): the concatenation of a list of lists.
RECURSIVE Concat(_)
Concat(seqs) == IF seqs = <<>> THEN <<>> ELSE Head(seqs) \o Concat(Tail(seqs))

sectionSiteSpaces_OwnTitleFirst(section) ==
    [i \in 1..Len(section.siteSpaces) |->
        [section.siteSpaces[i] EXCEPT !.space.title =
            IF section.siteSpaces[i].space.title # <<>>
            THEN section.siteSpaces[i].space.title ELSE section.title]]

\* The site-spaces of a section, titled section.title || siteSpace.space.title.
sectionSiteSpaces(section) ==
    [i \in 1..Len(section.siteSpaces) |->
        [section.siteSpaces[i] EXCEPT !.space.title =
            IF section.title # <<>> THEN section.title
            ELSE section.siteSpaces[i].space.title]]

\* The site-space directory of a site structure.
siteSpacesOf(siteStructure) ==
    IF siteStructure.type = "siteSpaces" THEN siteStructure.structure
    ELSE Concat([i \in 1..Len(siteStructure.structure) |->
                    sectionSiteSpaces(siteStructure.structure[i])])

\* Array.prototype.find on space ids.
findSiteSpace(siteSpaces, spaceId) ==
    IF \E i \in 1..Len(siteSpaces) : siteSpaces[i].space.id = spaceId
    THEN siteSpaces[CHOOSE i \in 1..Len(siteSpaces) :
                        /\ siteSpaces[i].space.id = spaceId
                        /\ \A j \in 1..(i - 1) : siteSpaces[j].space.id # spaceId]
    ELSE Undefined

needsStructure(scope) ==
    \/ scope.mode = "all"
    \/ scope.mode = "current"
    \/ (scope.mode = "specific" /\ Len(scope.siteSpaceIds) > 1)

\* The returned list and the collaborator calls made, in order.
searchSiteContent_EmptyQueryOnly(query, scope, api) ==
    IF Len(query) < 1 THEN [apiCalls |-> <<>>, result |-> <<>>]
    ELSE [apiCalls |-> <<"searchSiteContent">>,
          result |-> Concat([a \in 1..Len(api.items) |->
                        Concat([b \in 1..Len(api.items[a].pages) |->
                            transformPageResult(api.items[a].pages[b])])])]

searchSiteContent(query, scope, api) ==
    IF Len(query) <= 1 THEN [apiCalls |-> <<>>, result |-> <<>>]
    ELSE
        LET searchResults == api.items
            siteData == IF needsStructure(scope) THEN api.siteData ELSE Undefined
            siteStructure == IF siteData = Undefined THEN Undefined ELSE siteData.structure
            calls == <<"searchSiteContent">>
                     \o (IF needsStructure(scope) THEN <<"getSiteData">> ELSE <<>>)
        IN  \* siteSpaces is an array, hence truthy, exactly when siteStructure is defined
            IF siteStructure # Undefined THEN
                [apiCalls |-> calls,
                 result |-> Concat([a \in 1..Len(searchResults) |->
                     LET spaceItem == searchResults[a]
                         siteSpace == findSiteSpace(siteSpacesOf(siteStructure), spaceItem.id)
                     IN  Concat([b \in 1..Len(spaceItem.pages) |->
                             transformSitePageResult(spaceItem.pages[b], siteSpace)])])]
            ELSE
                [apiCalls |-> calls,
                 result |-> Concat([a \in 1..Len(searchResults) |->
                     Concat([b \in 1..Len(searchResults[a].pages) |->
                         transformPageResult(searchResults[a].pages[b])])])]

(***************************************************************************)
(* SpecPages: a tree, and one call of an exported resolver on it.          *)
(***************************************************************************)
\* Every node of a forest, at any depth.
RECURSIVE AllNodes(_)
AllNodes(pages) ==
    IF pages = <<>> THEN {}
    ELSE {Head(pages)} \cup AllNodes(Head(pages).pages) \cup AllNodes(Tail(pages))

Documents(pages) == {nd \in AllNodes(pages) : nd.type = "document"}

\* A document that is not part of any tree of the model.
ForeignDocument == [type |-> "document", id |-> 0, path |-> "zz", title |-> "t", pages |-> <<>>]

PageIds == 0..MaxNodes

NoCall == [fn |-> "none"]

CallResolvePagePath ==
    \E pagePath \in Paths :
        /\ call = NoCall
        /\ call' = [fn |-> "resolvePagePath", arg |-> pagePath,
                    result |-> resolvePagePath(rootPages, pagePath)]
        /\ UNCHANGED rootPages

CallResolvePageId ==
    \E pageId \in PageIds :
        /\ call = NoCall
        /\ call' = [fn |-> "resolvePageId", arg |-> pageId,
                    result |-> resolvePageId(rootPages, pageId)]
        /\ UNCHANGED rootPages

CallResolvePrevNextPages ==
    \E page \in Documents(rootPages) \cup {ForeignDocument} :
        /\ call = NoCall
        /\ call' = [fn |-> "resolvePrevNextPages", arg |-> page,
                    result |-> resolvePrevNextPages(rootPages, page)]
        /\ UNCHANGED rootPages

AnswerIdle ==
    /\ pc = "off" /\ stream = 0 /\ chunk = Undefined /\ todo = <<>>
    /\ inflight = {} /\ spaceData = EmptyMap /\ out = Undefined
    /\ yielded = <<>> /\ processed = <<>> /\ fetchLog = <<>> /\ error = Undefined

SearchIdle == backend = Undefined /\ search = NoCall

InitPages ==
    /\ rootPages \in PageTrees
    /\ call = NoCall
    /\ AnswerIdle
    /\ SearchIdle

NextPages ==
    \/ CallResolvePagePath /\ UNCHANGED <<answerVars, searchVars>>
    \/ CallResolvePageId /\ UNCHANGED <<answerVars, searchVars>>
    \/ CallResolvePrevNextPages /\ UNCHANGED <<answerVars, searchVars>>

SpecPages == InitPages /\ [][NextPages]_vars

(***************************************************************************)
(* SpecAnswer: one streamAskQuestion session, from the creation of the     *)
(* space cache to the end of the stream or the first rejection.            *)
(***************************************************************************)
PagesIdle == rootPages = <<>> /\ call = NoCall

InitAnswer ==
    /\ PagesIdle
    /\ SearchIdle
    /\ pc = "next" /\ stream = 0 /\ chunk = Undefined /\ todo = <<>>
    /\ inflight = {} /\ spaceData = EmptyMap /\ out = Undefined
    /\ yielded = <<>> /\ processed = <<>> /\ fetchLog = <<>> /\ error = Undefined

NextAnswer ==
    \/ StreamChunk /\ UNCHANGED <<pageVars, searchVars>>
    \/ StreamEnd /\ UNCHANGED <<pageVars, searchVars>>
    \/ Mapper /\ UNCHANGED <<pageVars, searchVars>>
    \/ FetchResolve /\ UNCHANGED <<pageVars, searchVars>>
    \/ FetchReject /\ UNCHANGED <<pageVars, searchVars>>
    \/ Yield /\ UNCHANGED <<pageVars, searchVars>>
    \/ Resume /\ UNCHANGED <<pageVars, searchVars>>

SpecAnswer == InitAnswer /\ [][NextAnswer]_vars

(***************************************************************************)
(* SpecSearch: a backend, and one call of searchSiteContent against it.    *)
(***************************************************************************)
CallSearchSiteContent ==
    \E query \in Queries, scope \in Scopes :
        /\ search = NoCall
        /\ search' = [fn |-> "searchSiteContent", query |-> query, scope |-> scope,
                      ret |-> searchSiteContent(query, scope, backend)]
        /\ UNCHANGED backend

InitSearch ==
    /\ PagesIdle
    /\ AnswerIdle
    /\ backend \in Backends
    /\ search = NoCall

NextSearch == CallSearchSiteContent /\ UNCHANGED <<pageVars, answerVars>>

SpecSearch == InitSearch /\ [][NextSearch]_vars

(***************************************************************************)
(* Claims about the page-tree resolvers (checked under SpecPages)          *)
(***************************************************************************)
\* Data-model invariant: ids unique across the tree, non-empty paths unique
\* among the non-link nodes.
DataModelInvariant(pages) ==
    \A x, y \in AllNodes(pages) :
        /\ x.id = y.id => x = y
        /\ (x.type # "link" /\ y.type # "link" /\ x.path # "" /\ x.path = y.path) => x = y

\* C1 (as stated): resolvePagePath(T, "") returns the first element of
\* flattenPages(T), and not-found exactly when flattenPages(T) is empty.
C1_FirstOfFlattened ==
    (call.fn = "resolvePagePath" /\ call.arg = "") =>
        LET flat == flattenPages(rootPages)
        IN  /\ (call.result = Undefined) <=> (flat = <<>>)
            /\ flat # <<>> => call.result.page = flat[1]

\* C2 (as stated): in a tree satisfying the data-model invariant, resolving
\* the path P of any document D returns a page with D's id.
C2_Original ==
    (call.fn = "resolvePagePath" /\ DataModelInvariant(rootPages)) =>
        \A D \in Documents(rootPages) :
            D.path = call.arg =>
                /\ call.result # Undefined
                /\ call.result.page.id = D.id

\* C2 (amended): in a tree satisfying the data-model invariant, resolving the
\* NON-EMPTY path P of any document D returns a page with D's id.
C2_NonEmptyPathResolvesToDocument ==
    (call.fn = "resolvePagePath" /\ call.arg # "" /\ DataModelInvariant(rootPages)) =>
        \A D \in Documents(rootPages) :
            D.path = call.arg =>
                /\ call.result # Undefined
                /\ call.result.page.id = D.id

\* C2 witness: a nested document with a non-empty path, below a node with
\* another path, has been resolved by its path.
C2_Witness ==
    /\ call.fn = "resolvePagePath" /\ call.arg # ""
    /\ DataModelInvariant(rootPages)
    /\ call.result # Undefined
    /\ call.result.page.path = call.arg
    /\ Len(call.result.ancestors) = 2

\* C3: when resolvePagePath(T, P) and resolvePageId(T, I) return the same
\* document node, they return the same ancestor chain (root first).
C3_SameDocumentSameAncestors ==
    /\ (call.fn = "resolvePagePath" /\ call.result # Undefined) =>
           \A I \in PageIds :
               LET byId == resolvePageId(rootPages, I)
               IN  (byId # Undefined /\ byId.page = call.result.page)
                       => byId.ancestors = call.result.ancestors
    /\ (call.fn = "resolvePageId" /\ call.result # Undefined) =>
           \A P \in Paths :
               LET byPath == resolvePagePath(rootPages, P)
               IN  (byPath # Undefined /\ byPath.page = call.result.page)
                       => byPath.ancestors = call.result.ancestors

\* C3 witness: the id lookup matched a group and descended to its first
\* document, which the empty path resolves too, below two ancestors.
C3_Witness ==
    /\ call.fn = "resolvePageId" /\ call.result # Undefined
    /\ call.result.page.id # call.arg
    /\ Len(call.result.ancestors) = 2
    /\ resolvePagePath(rootPages, "") # Undefined
    /\ resolvePagePath(rootPages, "").page = call.result.page

\* C4: previous/next are mutually consistent: if next of D is E then previous
\* of E is D, and symmetrically; the first document of the flattened sequence
\* has no previous and the last has no next.
C4_PrevNextConsistent ==
    (call.fn = "resolvePrevNextPages" /\ call.arg \in Documents(rootPages)) =>
        LET D == call.arg
            flat == flattenPages(rootPages)
        IN  /\ call.result.next # Undefined =>
                   resolvePrevNextPages(rootPages, call.result.next).previous = D
            /\ call.result.previous # Undefined =>
                   resolvePrevNextPages(rootPages, call.result.previous).next = D
            /\ D = flat[1] => call.result.previous = Undefined
            /\ D = flat[Len(flat)] => call.result.next = Undefined
            /\ D # flat[1] => call.result.previous # Undefined
            /\ D # flat[Len(flat)] => call.result.next # Undefined

\* C4 witness: a middle document, with both a previous and a next.
C4_Witness ==
    /\ call.fn = "resolvePrevNextPages"
    /\ call.arg \in Documents(rootPages)
    /\ call.result.previous # Undefined
    /\ call.result.next # Undefined

(***************************************************************************)
(* Claims about streamAskQuestion (checked under SpecAnswer)               *)
(***************************************************************************)
\* How many times the page list of a space has been requested.
FetchCount(spaceId) ==
    Cardinality({i \in 1..Len(fetchLog) : fetchLog[i].space = spaceId})

\* The spaces the page-type sources of an answer refer to.
PageSpaces(answer) ==
    {answer.sources[i].space :
         i \in {j \in 1..Len(answer.sources) : answer.sources[j].type = "page"}}

FetchFailed(spaceId) ==
    \E i \in 1..Len(fetchLog) :
        fetchLog[i].space = spaceId /\ fetchLog[i].outcome = "fail"

\* The chunk's only source is a page-type source.
SinglePageSource ==
    /\ chunk # Undefined
    /\ Len(chunk.sources) = 1
    /\ chunk.sources[1].type = "page"

\* A cache entry is never overwritten or removed, and a fetch is issued only
\* for a space that a page source of the current chunk refers to and that is
\* not cached.
C5_Step ==
    /\ \A S \in DOMAIN spaceData :
           S \in DOMAIN spaceData' /\ spaceData'[S] = spaceData[S]
    /\ Len(fetchLog') > Len(fetchLog) =>
           LET e == fetchLog'[Len(fetchLog')]
           IN  e.space \in PageSpaces(chunk) /\ e.space \notin DOMAIN spaceData

\* Once the processing of a chunk has ended, with its result or with a
\* rejection, every space its page sources refer to was fetched exactly once.
C5_ExactlyOnceWhenReferenced ==
    /\ \A S \in Spaces : FetchCount(S) <= 1
    /\ pc \in {"yield", "failed"} => \A S \in PageSpaces(chunk) : FetchCount(S) = 1

C5_AtMostOnce ==
    /\ \A S \in Spaces : FetchCount(S) <= 1
    /\ pc = "yield" =>
           \A S \in PageSpaces(chunk) : FetchCount(S) = 1 /\ S \in DOMAIN spaceData
    /\ pc = "failed" =>
           \A S \in PageSpaces(chunk) :
               FetchCount(S) = 1 \/ (FetchCount(S) = 0 /\ S \notin DOMAIN spaceData)

C7_NotSwallowed ==
    (\E i \in 1..Len(fetchLog) : fetchLog[i].outcome = "fail") =>
        /\ pc = "failed"
        /\ fetchLog[Len(fetchLog)].outcome = "fail"
        /\ error = [failed |-> fetchLog[Len(fetchLog)].space]
        /\ fetchLog[Len(fetchLog)].chunk = stream
        /\ out = Undefined
        /\ \A i \in 1..Len(yielded) : yielded[i] # stream
        /\ inflight = {}

\* C7: a failed api.getSpaceContentData call is not swallowed: the rejection
\* leaves the generator, no result is yielded for the chunk, and nothing
\* happens afterwards (no chunk is pulled, no fetch is issued).
C7_BackendFailurePropagates ==
    []C7_NotSwallowed /\ [][pc = "failed" => UNCHANGED vars]_vars

\* C7 witness: the second chunk refers to two spaces; the first one was
\* fetched, the fetch of the second one failed.
C7_Witness ==
    /\ pc = "failed" /\ stream = 2
    /\ yielded = <<1>>
    /\ Len(fetchLog) = 2
    /\ fetchLog[1].outcome = "ok" /\ fetchLog[1].chunk = 2
    /\ fetchLog[2].outcome = "fail" /\ fetchLog[2].chunk = 2

\* C8: the sources of a yielded result are exactly the chunk's page-type
\* sources whose space is cached and whose page id resolves in that space's
\* page list, in their original order; each carries the source's page id and
\* the title and href of the page resolved in its own space.
C8_SourcesAreResolvedPageSources ==
    pc = "yield" =>
        LET src == chunk.sources
            kept == {i \in 1..Len(src) :
                        /\ src[i].type = "page"
                        /\ src[i].space \in DOMAIN spaceData
                        /\ resolvePageId(spaceData[src[i].space], src[i].page) # Undefined}
        IN  /\ Len(out.sources) = Cardinality(kept)
            /\ \A i \in kept :
                   LET k == Cardinality({j \in kept : j <= i})
                       own == spaceData[src[i].space]
                       r == resolvePageId(own, src[i].page)
                   IN  /\ own = SpacePages(src[i].space)
                       /\ out.sources[k].id = src[i].page
                       /\ out.sources[k].title = r.page.title
                       /\ out.sources[k].href = pageHref(own, r.page)

\* C8 witness: the first source (an empty group of s2) is dropped, the second
\* (a group of s1) is emitted with the title of the group's first document.
C8_Witness ==
    /\ pc = "yield"
    /\ chunk.sources = <<[type |-> "page", space |-> "s2", page |-> 1],
                         [type |-> "page", space |-> "s1", page |-> 2]>>
    /\ Len(out.sources) = 1
    /\ out.sources[1].id = 2
    /\ out.sources[1].title = "S1 Three"

\* yielded is an initial part of processed.
IsPrefix(a, b) == Len(a) <= Len(b) /\ \A i \in 1..Len(a) : a[i] = b[i]

C11_OneAtATime ==
    /\ Cardinality(inflight) <= 1
    /\ inflight # {} => pc = "pMap"
    /\ IsPrefix(yielded, processed)
    /\ \A i \in 1..Len(processed) :
           /\ processed[i] \in 1..stream
           /\ \A j \in 1..(i - 1) : processed[j] < processed[i]
    /\ pc \in {"next", "yield", "done"} => yielded = processed
    /\ pc \in {"pMap", "failed"} => processed = Append(yielded, stream)
    /\ pc = "yield" => out # Undefined /\ chunk # Undefined
    /\ pc = "failed" => error # Undefined /\ out = Undefined

C11_Step ==
    /\ stream' # stream =>
           /\ stream' = stream + 1
           /\ pc = "next" /\ inflight = {} /\ todo = <<>>
           /\ yielded = processed
           /\ yielded' = yielded
           /\ IF chunk' = Undefined
              THEN processed' = processed /\ pc' = "next"
              ELSE processed' = Append(processed, stream') /\ pc' = "pMap"
    /\ yielded' # yielded =>
           /\ yielded' = Append(yielded, stream)
           /\ processed' = processed
           /\ todo = <<>> /\ inflight = {}
           /\ out' # Undefined
    /\ processed' # processed => stream' # stream

SectionsSearch ==
    /\ search.fn = "searchSiteContent"
    /\ Len(search.query) > 1
    /\ search.scope.mode = "all"
    /\ backend.siteData.structure.type = "sections"

\* The space item of the search results that holds the page with this id.
SpaceItemOfPage(pageId) ==
    CHOOSE a \in 1..Len(backend.items) :
        \E b \in 1..Len(backend.items[a].pages) : backend.items[a].pages[b].id = pageId

\* The places <<section, position>> of the site-spaces of a space, and the
\* first of them in the order of the structure.
PlacesOfSpace(spaceId) ==
    LET secs == backend.siteData.structure.structure
    IN  {pl \in UNION {{<<a, b>> : b \in 1..Len(secs[a].siteSpaces)} : a \in 1..Len(secs)} :
             secs[pl[1]].siteSpaces[pl[2]].space.id = spaceId}

FirstPlaceOfSpace(spaceId) ==
    CHOOSE pl \in PlacesOfSpace(spaceId) :
        \A other \in PlacesOfSpace(spaceId) :
            pl[1] < other[1] \/ (pl[1] = other[1] /\ pl[2] <= other[2])

\* C9 (as stated): the spaceTitle of a page result is the section's title only
\* when its site-space has no title of its own; a site-space with a title
\* keeps it.
C9_Original ==
    SectionsSearch =>
        \A i \in 1..Len(search.ret.result) :
            LET r == search.ret.result[i] IN
            r.type = "page" =>
                LET spaceId == backend.items[SpaceItemOfPage(r.id)].id IN
                PlacesOfSpace(spaceId) # {} =>
                    LET pl == FirstPlaceOfSpace(spaceId)
                        section == backend.siteData.structure.structure[pl[1]]
                        own == section.siteSpaces[pl[2]].space.title
                    IN  /\ "spaceTitle" \in DOMAIN r
                        /\ r.spaceTitle = (IF own # <<>> THEN own ELSE section.title)

\* C9 (amended): the spaceTitle of a page result is the title of the section
\* of its site-space whenever that section has a non-empty title, also when
\* the site-space has a title of its own; the site-space's own title is used
\* only when the section's title is empty.  A page of a space outside the
\* structure has no spaceTitle.
C9_SectionTitleOverridesSpaceTitle ==
    SectionsSearch =>
        \A i \in 1..Len(search.ret.result) :
            LET r == search.ret.result[i] IN
            r.type = "page" =>
                LET spaceId == backend.items[SpaceItemOfPage(r.id)].id IN
                IF PlacesOfSpace(spaceId) = {} THEN "spaceTitle" \notin DOMAIN r
                ELSE
                    LET pl == FirstPlaceOfSpace(spaceId)
                        section == backend.siteData.structure.structure[pl[1]]
                        own == section.siteSpaces[pl[2]].space.title
                    IN  /\ "spaceTitle" \in DOMAIN r
                        /\ r.spaceTitle = (IF section.title # <<>> THEN section.title ELSE own)

\* C9 witness: a page of a site-space titled "Docs" in a section titled "API"
\* is returned with the section's title.
C9_Witness ==
    /\ SectionsSearch
    /\ \E i \in 1..Len(search.ret.result) :
           LET r == search.ret.result[i] IN
           /\ r.type = "page"
           /\ "spaceTitle" \in DOMAIN r
           /\ r.spaceTitle = <<"API">>
           /\ LET spaceId == backend.items[SpaceItemOfPage(r.id)].id
                  pl == FirstPlaceOfSpace(spaceId)
              IN  backend.siteData.structure.structure[pl[1]]
                      .siteSpaces[pl[2]].space.title = <<"Docs">>

\* C10: for every scope, a query of length 0 or 1 returns the empty list and
\* calls neither api.searchSiteContent nor api.getSiteData.
C10_ShortQueryNoBackend ==
    (search.fn = "searchSiteContent" /\ Len(search.query) <= 1) =>
        /\ search.ret.result = <<>>
        /\ search.ret.apiCalls = <<>>

\* C10 witness: a query of length 1, over all the site, against a backend
\* that has results, has returned.
C10_Witness ==
    /\ search.fn = "searchSiteContent"
    /\ Len(search.query) = 1
    /\ search.scope.mode = "all"
    /\ backend.items # <<>>
    /\ search.ret.result = <<>>

====
